---- MODULE Spec2Model ----
(***************************************************************************)
(* A model of src/src/lib.rs: CLinkedList, a handle on a foreign singly    *)
(* linked list (head address plus a caller-supplied successor function),   *)
(* with its read-only cursor Iter and its mutable cursor IterMut.          *)
(*                                                                         *)
(* The foreign memory is a heap of MaxNodes nodes, each a struct with a    *)
(* value and a raw pointer to the next node (tests::TestNodeConst and      *)
(* tests::TestNodeMut).  The caller owns the heap; the handle only reads   *)
(* through addresses, and writes happen only through the exclusive         *)
(* references that front_mut and IterMut::next hand out.                   *)
(***************************************************************************)
EXTENDS Integers, Sequences, FiniteSets, TLC

\* ----------------------------------------------------------------- bounds

\* Number of node addresses of the foreign heap.
MaxNodes == 2

\* Node values range over 0 .. MaxVal.
MaxVal == 1

\* ------------------------------------------------------------ foreign heap

\* The null pointer; also the representation of Option::None for an
\* Option<&T> or Option<&mut T> (a reference is never null).
NULL == 0

Nodes == 1 .. MaxNodes

Ptr == Nodes \cup {NULL}

Vals == 0 .. MaxVal

\* The successor functions a caller may supply: the tests' closure
\* |n| n.next, and the closure |_| null (every node is the last one).
SuccFns == {"next", "stop"}

VARIABLES
    val,        \* val[p]: the value field of node p
    link,       \* link[p]: the next field of node p (a raw pointer)
    list,       \* the handle, or NoList before/without construction
    iter,       \* the read-only cursor (Iter), or NoIter
    iterMut,    \* the mutable cursor (IterMut), or NoIter
    refs,       \* the exclusive references the caller holds: [p, by]
    snap,       \* the heap when the latest `for node in iter_mut()` began
    frontWrite, \* {v} once v was written through a front_mut() reference
    ret,        \* the latest operation and what it returned
    iter2,      \* a second read-only cursor on the same handle, or NoIter
    run         \* the call whose loop is running, or NoRun

vars == <<val, link, list, iter, iterMut, refs, snap, frontWrite, ret,
          iter2, run>>

\* ret before any operation.  Its fields: the operation, its argument,
\* the value it returned, the successor invocations it made.
NoRet == [op |-> "init", arg |-> NULL, v |-> NULL, calls |-> 0]

\* The element stored at address p, as the successor function and
\* PartialEq see it.
Elem(p) == [val |-> val[p], next |-> link[p]]

\* All element values a caller can pass to contains().
Elems == [val : Vals, next : Ptr]

\* Following lk from p for k steps ends at null.
RECURSIVE EndsWithin(_, _, _)
EndsWithin(lk, p, k) ==
    IF p = NULL THEN TRUE
    ELSE IF k = 0 THEN FALSE
    ELSE EndsWithin(lk, lk[p], k - 1)

\* Every chain of the heap is null-terminated (no cycle).
Acyclic(lk) == \A p \in Nodes : EndsWithin(lk, p, MaxNodes)

\* The code looks at an address only to compare it with null, so the heaps
\* are taken up to a renaming of the addresses: the nodes are numbered so
\* that every link points to a higher address.
Ascending(lk) == \A p \in Nodes : lk[p] = NULL \/ lk[p] > p

\* Invocation of the stored successor function F on a node reference.
Apply(F, p) == IF F = "next" THEN Elem(p).next ELSE NULL

\* -------------------------------------------------------------- the handle

NoList == [kind |-> "none", element |-> NULL, next |-> "none"]

\* A faulty from_const_ptr: the null check is missing.
FromConstPtrMutantNoCheck(head, F) ==
    [kind |-> "const", element |-> head, next |-> F]

\* CLinkedList::from_const_ptr: Shared::new(head as *mut T).map(...).
FromConstPtr(head, F) ==
    IF head = NULL THEN NoList
    ELSE [kind |-> "const", element |-> head, next |-> F]

\* CLinkedList::from_mut_ptr: Shared::new(head).map(...).
FromMutPtr(head, F) ==
    IF head = NULL THEN NoList
    ELSE [kind |-> "mut", element |-> head, next |-> F]

\* The while-let loop of len(), const variant: e is the current node, n the
\* count so far, c the number of successor invocations so far.
RECURSIVE LenLoopConst(_, _, _, _)
LenLoopConst(l, e, n, c) ==
    LET p == Apply(l.next, e)
    IN  IF p # NULL THEN LenLoopConst(l, p, n + 1, c + 1)
        ELSE [v |-> n, calls |-> c + 1]

\* A faulty len(): the count starts at 0, the head is not counted.
LenConstMutantFromZero(l) == LenLoopConst(l, l.element, 0, 0)

\* CLinkedList<*const T>::len.
LenConst(l) == LenLoopConst(l, l.element, 1, 0)

\* The while-let loop of len(), mut variant.
RECURSIVE LenLoopMut(_, _, _, _)
LenLoopMut(l, e, n, c) ==
    LET p == Apply(l.next, e)
    IN  IF p # NULL THEN LenLoopMut(l, p, n + 1, c + 1)
        ELSE [v |-> n, calls |-> c + 1]

\* A faulty len() of the mut variant: the count starts at 0.
LenMutMutantFromZero(l) == LenLoopMut(l, l.element, 0, 0)

\* CLinkedList<*mut T>::len.
LenMut(l) == LenLoopMut(l, l.element, 1, 0)

\* len() of a handle of either variant.
LenOf(l) == IF l.kind = "const" THEN LenConst(l) ELSE LenMut(l)

\* A faulty is_empty(): the test is negated.
IsEmptyMutantNegated(l) == l.element # NULL

\* CLinkedList::is_empty.
IsEmpty(l) == l.element = NULL

\* A faulty front(): it returns the node after the head.
FrontMutantSecond(l) ==
    IF l.element = NULL THEN NULL ELSE Apply(l.next, l.element)

\* CLinkedList::front: None, or a shared reference to the head element.
Front(l) == IF l.element = NULL THEN NULL ELSE l.element

\* CLinkedList::front_mut: None, or an exclusive reference to the head.
FrontMut(l) == IF l.element = NULL THEN NULL ELSE l.element

\* ------------------------------------------------------------- the cursors

NoIter == [alive |-> FALSE, prev |-> NULL, out |-> <<>>, nones |-> 0,
           loop |-> FALSE]

\* CLinkedList::iter and CLinkedList::iter_mut: a cursor with prev = None.
\* out (what the cursor has yielded so far), nones (whether next() has
\* returned None never, once, or more than once: 0, 1, 2) and loop (the
\* cursor is driven by a for loop) are history.
NewIter(byLoop) ==
    [alive |-> TRUE, prev |-> NULL, out |-> <<>>, nones |-> 0,
     loop |-> byLoop]

\* One more None from a cursor that returned None n times before.
Again(n) == IF n = 0 THEN 1 ELSE 2

\* A faulty Iter::next: at the end of the chain it resets prev, so that the
\* cursor starts again from the head.
IterNextConstMutantRestart(l, prev) ==
    LET p == IF prev = NULL THEN l.element ELSE Apply(l.next, prev)
    IN  IF p = NULL
        THEN [item |-> NULL, prev |-> NULL,
              calls |-> IF prev = NULL THEN 0 ELSE 1]
        ELSE [item |-> p, prev |-> p,
              calls |-> IF prev = NULL THEN 0 ELSE 1]

\* A faulty Iter::next: the first call yields the successor of the head.
IterNextConstMutantSkip(l, prev) ==
    LET p == IF prev = NULL THEN Apply(l.next, l.element)
             ELSE Apply(l.next, prev)
    IN  IF p = NULL THEN [item |-> NULL, prev |-> prev, calls |-> 1]
        ELSE [item |-> p, prev |-> p, calls |-> 1]

\* Iter<*const T>::next on the handle l with the cursor's prev: the item
\* returned (NULL for None), the new prev, the successor invocations made.
IterNextConst(l, prev) ==
    LET p == IF prev = NULL THEN l.element ELSE Apply(l.next, prev)
    IN  IF p = NULL
        THEN [item |-> NULL, prev |-> prev,
              calls |-> IF prev = NULL THEN 0 ELSE 1]
        ELSE [item |-> p, prev |-> p,
              calls |-> IF prev = NULL THEN 0 ELSE 1]

\* A faulty Iter<*mut T>::next: the first call invokes the successor
\* function on the head and yields its target.
IterNextMutMutantSkip(l, prev) ==
    LET p == IF prev = NULL THEN Apply(l.next, l.element)
             ELSE Apply(l.next, prev)
    IN  IF p = NULL THEN [item |-> NULL, prev |-> prev, calls |-> 1]
        ELSE [item |-> p, prev |-> p, calls |-> 1]

\* Iter<*mut T>::next.
IterNextMut(l, prev) ==
    LET p == IF prev = NULL THEN l.element ELSE Apply(l.next, prev)
    IN  IF p = NULL
        THEN [item |-> NULL, prev |-> prev,
              calls |-> IF prev = NULL THEN 0 ELSE 1]
        ELSE [item |-> p, prev |-> p,
              calls |-> IF prev = NULL THEN 0 ELSE 1]

\* Iter::next of the variant of the handle.
IterNextOf(l, prev) ==
    IF l.kind = "const" THEN IterNextConst(l, prev) ELSE IterNextMut(l, prev)

\* A faulty IterMut::next: the first call yields the successor of the head.
IterMutNextOfMutantSkip(l, prev) ==
    LET p == IF prev = NULL THEN Apply(l.next, l.element)
             ELSE Apply(l.next, prev)
    IN  IF p = NULL THEN [item |-> NULL, prev |-> prev, calls |-> 1]
        ELSE [item |-> p, prev |-> p, calls |-> 1]

\* IterMut::next: the same walk; the item is an exclusive reference and a
\* second exclusive reference to the same node is stored in prev.
IterMutNextOf(l, prev) ==
    LET p == IF prev = NULL THEN l.element ELSE Apply(l.next, prev)
    IN  IF p = NULL
        THEN [item |-> NULL, prev |-> prev,
              calls |-> IF prev = NULL THEN 0 ELSE 1]
        ELSE [item |-> p, prev |-> p,
              calls |-> IF prev = NULL THEN 0 ELSE 1]

\* Iter::size_hint and IterMut::size_hint: (len, Some(len)) of the list.
SizeHintOf(l) == [lo |-> LenOf(l).v, hi |-> LenOf(l).v]

\* Iterator::any over a fresh Iter, as contains() uses it: stops at the
\* first element equal to x.
RECURSIVE AnyEq(_, _, _)
AnyEq(l, prev, x) ==
    LET r == IterNextOf(l, prev)
    IN  IF r.item = NULL THEN FALSE
        ELSE IF Elem(r.item) = x THEN TRUE
        ELSE AnyEq(l, r.prev, x)

\* A faulty contains(): only the head is compared.
ContainsMutantHeadOnly(l, x) == Elem(l.element) = x

\* CLinkedList::contains: self.iter().any(|e| e == x).
Contains(l, x) == AnyEq(l, NULL, x)

\* The update the tests' loop applies to a value: node.val += 1.
Update(v) == (v + 1) % (MaxVal + 1)

\* What the caller reads through a returned reference (n.val); nothing
\* through None.
ReadVal(p) == IF p = NULL THEN NULL ELSE val[p]

\* A yielded element as the caller sees it: its address and its value.
Seen(p) == [p |-> p, val |-> ReadVal(p)]

\* --------------------------------------------------------- initial states

NoSnap == <<>>

\* The argument slot of a call that takes none.
NoElem == [val |-> 0, next |-> NULL]

\* No call is in the middle of its loop.
NoRun == [op |-> "idle", e |-> NULL, n |-> 0, calls |-> 0, x |-> NoElem,
          acc |-> <<>>]

\* fmt() before the first entry: f.debug_list() and self.iter().
FmtStart ==
    [op |-> "fmt", e |-> NULL, n |-> 0, calls |-> 0, x |-> NoElem,
     acc |-> <<>>]

\* A faulty fmt(): at the end of the chain the rendering starts again from
\* the head.
FmtTurnOfMutantRestart(l, r) ==
    LET s == IterNextOf(l, r.e)
    IN  IF s.item = NULL
        THEN [done |-> FALSE, v |-> NULL, run |-> [r EXCEPT !.e = NULL]]
        ELSE [done |-> FALSE, v |-> NULL,
              run |-> [r EXCEPT !.e = s.prev,
                                !.acc = IF Len(@) > MaxNodes THEN @
                                        ELSE Append(@, Seen(s.item))]]

\* One turn of entries(self.iter()): the next element is rendered, or at
\* None finish() closes the list.  Of the rendered entries the first
\* MaxNodes + 1 are kept.
FmtTurnOf(l, r) ==
    LET s == IterNextOf(l, r.e)
    IN  IF s.item = NULL THEN [done |-> TRUE, v |-> r.acc, run |-> r]
        ELSE [done |-> FALSE, v |-> NULL,
              run |-> [r EXCEPT !.e = s.prev,
                                !.acc = IF Len(@) > MaxNodes THEN @
                                        ELSE Append(@, Seen(s.item))]]

\* fmt::Debug for CLinkedList, from the first entry to finish(): the
\* rendered entries.
RECURSIVE FmtFrom(_, _)
FmtFrom(l, r) ==
    LET t == FmtTurnOf(l, r)
    IN  IF t.done THEN t.v ELSE FmtFrom(l, t.run)

FmtOf(l) == FmtFrom(l, FmtStart)

\* A heap the caller built: any values, any null-terminated links; no
\* handle and no cursor yet.
Init ==
    /\ val \in [Nodes -> Vals]
    /\ link \in {lk \in [Nodes -> Ptr] : Acyclic(lk) /\ Ascending(lk)}
    /\ list = NoList
    /\ iter = NoIter
    /\ iterMut = NoIter
    /\ refs = {}
    /\ snap = NoSnap
    /\ frontWrite = {}
    /\ ret = NoRet
    /\ iter2 = NoIter
    /\ run = NoRun

\* ------------------------------------------------------- borrow discipline

\* The handle is exclusively borrowed while an IterMut or an exclusive
\* reference obtained from it (lifetime 'a) is alive.
MutBorrowed == iterMut.alive \/ refs # {}

\* What a method taking &self needs.
CanShare == list # NoList /\ ~MutBorrowed

\* What a method taking &mut self needs.
CanBorrowMut ==
    list # NoList /\ list.kind = "mut" /\ ~MutBorrowed /\ ~iter.alive

\* ---------------------------------------------------------------- actions

\* CLinkedList::from_const_ptr(head, F).
ConstructConst(head, F) ==
    /\ list = NoList
    /\ list' = FromConstPtr(head, F)
    /\ ret' = [op |-> "from_const_ptr", arg |-> [head |-> head, next |-> F],
               v |-> FromConstPtr(head, F), calls |-> 0]
    /\ UNCHANGED <<val, link, iter, iterMut, refs, snap, frontWrite,
                   iter2, run>>

\* CLinkedList::from_mut_ptr(head, F).
ConstructMut(head, F) ==
    /\ list = NoList
    /\ list' = FromMutPtr(head, F)
    /\ ret' = [op |-> "from_mut_ptr", arg |-> [head |-> head, next |-> F],
               v |-> FromMutPtr(head, F), calls |-> 0]
    /\ UNCHANGED <<val, link, iter, iterMut, refs, snap, frontWrite,
                   iter2, run>>

\* list.len().
LenOp ==
    /\ CanShare
    /\ ret' = [op |-> "len", arg |-> NULL, v |-> LenOf(list).v,
               calls |-> LenOf(list).calls]
    /\ UNCHANGED <<val, link, list, iter, iterMut, refs, snap, frontWrite,
                   iter2, run>>

\* list.contains(&x).
ContainsOp(x) ==
    /\ CanShare
    /\ ret' = [op |-> "contains", arg |-> x, v |-> Contains(list, x),
               calls |-> 0]
    /\ UNCHANGED <<val, link, list, iter, iterMut, refs, snap, frontWrite,
                   iter2, run>>

\* list.is_empty().
IsEmptyOp ==
    /\ CanShare
    /\ ret' = [op |-> "is_empty", arg |-> NULL, v |-> IsEmpty(list),
               calls |-> 0]
    /\ UNCHANGED <<val, link, list, iter, iterMut, refs, snap, frontWrite,
                   iter2, run>>

\* list.front(), and the caller reading the value through the result.
FrontOp ==
    /\ CanShare
    /\ ret' = [op |-> "front", arg |-> NULL, v |-> Seen(Front(list)),
               calls |-> 0]
    /\ UNCHANGED <<val, link, list, iter, iterMut, refs, snap, frontWrite,
                   iter2, run>>

\* list.front_mut(): the caller now holds an exclusive reference.
FrontMutOp ==
    /\ CanBorrowMut
    /\ ret' = [op |-> "front_mut", arg |-> NULL, v |-> FrontMut(list),
               calls |-> 0]
    /\ refs' = IF FrontMut(list) = NULL THEN refs
               ELSE {[p |-> FrontMut(list), by |-> "front_mut"]}
    /\ snap' = NoSnap
    /\ UNCHANGED <<val, link, list, iter, iterMut, frontWrite, iter2, run>>

\* The caller writes a value through an exclusive reference it holds.
WriteVal(r, v) ==
    /\ r \in refs
    /\ val' = [val EXCEPT ![r.p] = v]
    /\ frontWrite' = IF r.by = "front_mut" THEN {v} ELSE {}
    /\ ret' = [op |-> "write", arg |-> r.p, v |-> v, calls |-> 0]
    /\ UNCHANGED <<link, list, iter, iterMut, refs, snap, iter2, run>>

\* The caller lets go of an exclusive reference.
DropRef(r) ==
    /\ r \in refs
    /\ refs' = refs \ {r}
    /\ ret' = [op |-> "drop_ref", arg |-> r.p, v |-> NULL, calls |-> 0]
    /\ UNCHANGED <<val, link, list, iter, iterMut, snap, frontWrite,
                   iter2, run>>

\* list.iter().
IterOp ==
    /\ CanShare
    /\ ~iter.alive
    /\ iter' = NewIter(FALSE)
    /\ ret' = [op |-> "iter", arg |-> NULL, v |-> NULL, calls |-> 0]
    /\ UNCHANGED <<val, link, list, iterMut, refs, snap, frontWrite,
                   iter2, run>>

\* A faulty Iter::next: the walk advances the handle's own head instead of
\* keeping to the cursor.
IterNextMutantAdvancesHead ==
    /\ iter.alive
    /\ LET r == IterNextOf(list, iter.prev)
       IN  /\ iter' = [iter EXCEPT
                         !.prev = r.prev,
                         !.out = IF r.item = NULL THEN @
                                 ELSE Append(@, Seen(r.item)),
                         !.nones = IF r.item = NULL THEN Again(@) ELSE @]
           /\ list' = IF r.item = NULL THEN list
                      ELSE [list EXCEPT !.element = r.item]
           /\ ret' = [op |-> "next", arg |-> NULL, v |-> r.item,
                      calls |-> r.calls]
    /\ UNCHANGED <<val, link, iterMut, refs, snap, frontWrite, iter2, run>>

\* Iter::next on the read-only cursor.
IterNext ==
    /\ iter.alive
    /\ LET r == IterNextOf(list, iter.prev)
       IN  /\ iter' = [iter EXCEPT
                         !.prev = r.prev,
                         !.out = IF r.item = NULL THEN @
                                 ELSE Append(@, Seen(r.item)),
                         !.nones = IF r.item = NULL THEN Again(@) ELSE @]
           /\ ret' = [op |-> "next", arg |-> NULL, v |-> r.item,
                      calls |-> r.calls]
    /\ UNCHANGED <<val, link, list, iterMut, refs, snap, frontWrite,
                   iter2, run>>

\* Iter::size_hint on the read-only cursor.
IterSizeHint ==
    /\ iter.alive
    /\ ret' = [op |-> "size_hint", arg |-> NULL, v |-> SizeHintOf(list),
               calls |-> 0]
    /\ UNCHANGED <<val, link, list, iter, iterMut, refs, snap, frontWrite,
                   iter2, run>>

\* The read-only cursor goes out of scope.
IterDrop ==
    /\ iter.alive
    /\ iter' = NoIter
    /\ ret' = [op |-> "drop_iter", arg |-> NULL, v |-> NULL, calls |-> 0]
    /\ UNCHANGED <<val, link, list, iterMut, refs, snap, frontWrite,
                   iter2, run>>

\* format!("{:?}", list): fmt::Debug for CLinkedList.
FmtOp ==
    /\ CanShare
    /\ ret' = [op |-> "fmt", arg |-> NULL, v |-> FmtOf(list), calls |-> 0]
    /\ UNCHANGED <<val, link, list, iter, iterMut, refs, snap, frontWrite,
                   iter2, run>>

\* A faulty fmt::Debug for Iter: the entries are taken from the cursor
\* itself, which is left at the end of the chain.
IterFmtMutantDrains ==
    /\ iter.alive
    /\ iter' = [iter EXCEPT
                  !.prev = IF FmtOf(list) = <<>> THEN @
                           ELSE FmtOf(list)[Len(FmtOf(list))].p]
    /\ ret' = [op |-> "fmt_iter", arg |-> NULL, v |-> FmtOf(list),
               calls |-> 0]
    /\ UNCHANGED <<val, link, list, iterMut, refs, snap, frontWrite,
                   iter2, run>>

\* format!("{:?}", iter): fmt::Debug for Iter renders self.list.
IterFmt ==
    /\ iter.alive
    /\ ret' = [op |-> "fmt_iter", arg |-> NULL, v |-> FmtOf(list),
               calls |-> 0]
    /\ UNCHANGED <<val, link, list, iter, iterMut, refs, snap, frontWrite,
                   iter2, run>>

\* format!("{:?}", iter_mut): fmt::Debug for IterMut renders self.list.
IterMutFmt ==
    /\ iterMut.alive
    /\ ret' = [op |-> "fmt_iter_mut", arg |-> NULL, v |-> FmtOf(list),
               calls |-> 0]
    /\ UNCHANGED <<val, link, list, iter, iterMut, refs, snap, frontWrite,
                   iter2, run>>

\* list.iter_mut().
IterMutOp ==
    /\ CanBorrowMut
    /\ iterMut' = NewIter(FALSE)
    /\ snap' = NoSnap
    /\ ret' = [op |-> "iter_mut", arg |-> NULL, v |-> NULL, calls |-> 0]
    /\ UNCHANGED <<val, link, list, iter, refs, frontWrite, iter2, run>>

\* IterMut::next: the yielded exclusive reference goes to the caller, and
\* the cursor keeps its own in prev.
IterMutNext ==
    /\ iterMut.alive
    /\ ~iterMut.loop
    /\ LET r == IterMutNextOf(list, iterMut.prev)
       IN  /\ iterMut' = [iterMut EXCEPT
                            !.prev = r.prev,
                            !.out = IF r.item = NULL THEN @
                                    ELSE Append(@, Seen(r.item)),
                            !.nones = IF r.item = NULL THEN Again(@) ELSE @]
           /\ refs' = IF r.item = NULL THEN refs
                      ELSE refs \cup {[p |-> r.item, by |-> "next"]}
           /\ ret' = [op |-> "next_mut", arg |-> NULL, v |-> r.item,
                      calls |-> r.calls]
    /\ UNCHANGED <<val, link, list, iter, snap, frontWrite, iter2, run>>

\* IterMut::size_hint.
IterMutSizeHint ==
    /\ iterMut.alive
    /\ ~iterMut.loop
    /\ ret' = [op |-> "size_hint_mut", arg |-> NULL, v |-> SizeHintOf(list),
               calls |-> 0]
    /\ UNCHANGED <<val, link, list, iter, iterMut, refs, snap, frontWrite,
                   iter2, run>>

\* The mutable cursor goes out of scope (its yielded references may live on).
IterMutDrop ==
    /\ iterMut.alive
    /\ ~iterMut.loop
    /\ iterMut' = NoIter
    /\ ret' = [op |-> "drop_iter_mut", arg |-> NULL, v |-> NULL, calls |-> 0]
    /\ UNCHANGED <<val, link, list, iter, refs, snap, frontWrite, iter2, run>>

\* `for node in list.iter_mut() { node.val += 1; }` begins: the loop takes
\* the cursor.
ForMutBegin ==
    /\ CanBorrowMut
    /\ iterMut' = NewIter(TRUE)
    /\ snap' = [val |-> val, link |-> link]
    /\ frontWrite' = {}
    /\ ret' = [op |-> "for_mut", arg |-> NULL, v |-> "begin", calls |-> 0]
    /\ UNCHANGED <<val, link, list, iter, refs, iter2, run>>

\* One turn of that loop: next(), then either the body on the yielded node
\* (whose reference ends with the body) or the end of the loop, where the
\* cursor is dropped.
ForMutTurn ==
    /\ iterMut.alive
    /\ iterMut.loop
    /\ LET r == IterMutNextOf(list, iterMut.prev)
       IN  IF r.item = NULL
           THEN /\ iterMut' = NoIter
                /\ val' = val
                /\ ret' = [op |-> "for_mut", arg |-> NULL, v |-> "end",
                           calls |-> r.calls]
           ELSE /\ iterMut' = [iterMut EXCEPT
                                 !.prev = r.prev,
                                 !.out = Append(@, Seen(r.item))]
                /\ val' = [val EXCEPT ![r.item] = Update(@)]
                /\ ret' = [op |-> "for_mut", arg |-> NULL, v |-> "body",
                           calls |-> r.calls]
    /\ UNCHANGED <<link, list, iter, refs, snap, frontWrite, iter2, run>>

\* One operation on the handle, on its cursor or on a reference; every
\* operation runs to its end before the next one begins.
Next ==
    \/ \E head \in Ptr, F \in SuccFns : ConstructConst(head, F)
    \/ \E head \in Ptr, F \in SuccFns : ConstructMut(head, F)
    \/ LenOp
    \/ \E x \in Elems : ContainsOp(x)
    \/ IsEmptyOp
    \/ FrontOp
    \/ FrontMutOp
    \/ \E r \in refs, v \in Vals : WriteVal(r, v)
    \/ \E r \in refs : DropRef(r)
    \/ IterOp
    \/ IterNext
    \/ IterSizeHint
    \/ IterDrop
    \/ IterMutOp
    \/ IterMutNext
    \/ IterMutSizeHint
    \/ IterMutDrop
    \/ ForMutBegin
    \/ ForMutTurn
    \/ FmtOp
    \/ IterFmt
    \/ IterMutFmt

Spec == Init /\ [][Next]_vars

\* ------------------------------------------------- the chain of the handle

\* The handle's successor function on a node address.
Succ(p) == Apply(list.next, p)

\* S and every node reached from S in at most k successor steps.
RECURSIVE ReachIn(_, _)
ReachIn(S, k) ==
    IF k = 0 THEN S
    ELSE ReachIn(S \cup ({Succ(p) : p \in S} \ {NULL}), k - 1)

\* The nodes of the handle's chain, and their number n.
ChainNodes == ReachIn({list.element}, MaxNodes)

ChainLen == Cardinality(ChainNodes)

\* s is head, succ(head), succ(succ(head)), ... as far as it goes.
FollowsChain(s) ==
    \A k \in 1 .. Len(s) :
        s[k].p = IF k = 1 THEN list.element ELSE Succ(s[k - 1].p)

\* s stops where the successor function returns null.
EndsChain(s) == s # <<>> /\ Succ(s[Len(s)].p) = NULL

\* ------------------------------------------------------------------ claims

\* C1: on an acyclic chain, what a fresh iter() has yielded so far is
\* head, succ(head), succ(succ(head)), ... element by element and in
\* order, each with the value stored in its node; when next() has returned
\* None the sequence is the whole chain, up to the node whose successor is
\* null: nothing skipped, repeated or added.
C1_IterYieldsSuccessorChain ==
    iter.alive =>
        /\ FollowsChain(iter.out)
        /\ \A k \in 1 .. Len(iter.out) : iter.out[k].val = val[iter.out[k].p]
        /\ iter.nones = 0 => iter.prev = IF iter.out = <<>> THEN NULL
                             ELSE iter.out[Len(iter.out)].p
        /\ iter.nones > 0 =>
              EndsChain(iter.out) /\ Len(iter.out) = ChainLen
        /\ ret.op = "next" /\ ret.v # NULL =>
              iter.out # <<>> /\ iter.out[Len(iter.out)].p = ret.v

\* C1 witness: a read-only cursor over a two-node chain has yielded both
\* nodes and then None.
C1_Witness ==
    /\ iter.alive /\ iter.nones > 0 /\ Len(iter.out) = 2
    /\ ret.op = "next" /\ ret.v = NULL

\* C2: len() returns the number n of nodes of the chain, in every state in
\* which it can be called, whatever values the nodes hold (so also after
\* iter_mut has changed them).
C2_LenIsChainLength ==
    /\ list # NoList => LenOf(list).v = ChainLen
    /\ ret.op = "len" => ret.v = ChainLen

\* C2 witness: len() returned 2 after a for loop over iter_mut() changed
\* the values of a two-node chain.
C2_Witness ==
    /\ ret.op = "len" /\ ret.v = 2
    /\ snap # NoSnap /\ ~iterMut.alive /\ snap.val # val

\* C3 (as claimed): size_hint() returns (r, Some(r)) where r is the number
\* of elements the cursor will still yield, n minus the number yielded.
C3_SizeHintIsRemaining ==
    /\ ret.op = "size_hint" =>
          ret.v = [lo |-> ChainLen - Len(iter.out),
                   hi |-> ChainLen - Len(iter.out)]
    /\ ret.op = "size_hint_mut" =>
          ret.v = [lo |-> ChainLen - Len(iterMut.out),
                   hi |-> ChainLen - Len(iterMut.out)]

\* C4 (as claimed): at most one exclusive reference into the chain is
\* live, counting the cursor's prev slot and the references yielded to the
\* caller.
C4_OneExclusiveReference ==
    Cardinality(refs)
        + (IF iterMut.alive /\ iterMut.prev # NULL THEN 1 ELSE 0) <= 1

\* C5: once next() has returned None on a cursor (Iter or IterMut), every
\* later next() on it returns None, leaves prev as it is and yields
\* nothing more.  (Only Iter::next sets ret.op to "next" and only
\* IterMut::next sets it to "next_mut".)
C5_ExhaustionIsIdempotent ==
    [][ /\ (ret'.op = "next" /\ iter.nones > 0) =>
              /\ ret'.v = NULL
              /\ iter'.prev = iter.prev
              /\ iter'.out = iter.out
              /\ iter'.nones = 2
        /\ (ret'.op = "next_mut" /\ iterMut.nones > 0) =>
              /\ ret'.v = NULL
              /\ iterMut'.prev = iterMut.prev
              /\ iterMut'.out = iterMut.out
              /\ iterMut'.nones = 2
              /\ refs' = refs ]_vars

\* C5 witness: next() has returned None more than once on a cursor that
\* had yielded an element.
C5_Witness ==
    /\ iter.alive /\ iter.nones = 2 /\ iter.out # <<>>
    /\ ret.op = "next" /\ ret.v = NULL

\* The for loop over iter_mut() has run to its end and nothing has written
\* to the heap since.
LoopDone == snap # NoSnap /\ ~iterMut.alive

\* C6: after `for node in list.iter_mut() { node.val = g(node.val) }` every
\* node of the chain holds g of its old value and every other node its old
\* value, the links and len() are as before, and a fresh iter() yields
\* g(v1), g(v2), ... in the chain's order.
C6_IterMutUpdatesEachOnce ==
    LoopDone =>
        /\ \A p \in Nodes :
              val[p] = IF p \in ChainNodes THEN Update(snap.val[p])
                       ELSE snap.val[p]
        /\ link = snap.link
        /\ LenOf(list).v = ChainLen
        /\ iter.alive =>
              /\ FollowsChain(iter.out)
              /\ \A k \in 1 .. Len(iter.out) :
                    iter.out[k].val = Update(snap.val[iter.out[k].p])

\* C6 witness: after such a loop over a two-node chain a fresh iter() has
\* been driven to exhaustion.
C6_Witness ==
    /\ LoopDone /\ ChainLen = 2
    /\ iter.alive /\ iter.nones > 0 /\ Len(iter.out) = 2

\* C7: from_const_ptr and from_mut_ptr return None exactly for a null
\* head; otherwise the handle stores the given head and the given
\* successor function; the successor function is not invoked and the heap
\* is left as it was.  (Only the constructors set ret.op to their names.)
C7_ConstructAbsentIffNull ==
    /\ [](ret.op \in {"from_const_ptr", "from_mut_ptr"} =>
            /\ ret.v = NoList <=> ret.arg.head = NULL
            /\ ret.arg.head # NULL =>
                  /\ ret.v.element = ret.arg.head
                  /\ ret.v.next = ret.arg.next
                  /\ ret.v.kind = IF ret.op = "from_const_ptr" THEN "const"
                                  ELSE "mut"
            /\ list = ret.v
            /\ ret.calls = 0)
    /\ [][ret'.op \in {"from_const_ptr", "from_mut_ptr"} =>
              val' = val /\ link' = link]_vars

\* C7 witness: from_mut_ptr(null, F) has returned None.
C7_Witness ==
    ret.op = "from_mut_ptr" /\ ret.arg.head = NULL /\ ret.v = NoList

\* C8: contains(x) is true exactly when some node of the chain holds an
\* element equal to x.
C8_ContainsIffSomeElementEqual ==
    ret.op = "contains" =>
        (ret.v <=> \E p \in ChainNodes : Elem(p) = ret.arg)

\* C8 witness: contains(x) returned true for an x that is not the head
\* element.
C8_Witness ==
    ret.op = "contains" /\ ret.v = TRUE /\ Elem(list.element) # ret.arg

\* C9: front() and front_mut() return the head of the chain, the node a
\* fresh iter() yields first; a value written through front_mut() is what
\* a later front() and a later traversal read at the head; and the step
\* after front_mut() changes no node but the head.
C9_FrontIsHead ==
    /\ [](/\ ret.op = "front" =>
                /\ ret.v.p = list.element
                /\ ret.v.p = IterNextOf(list, NULL).item
                /\ frontWrite # {} => ret.v.val \in frontWrite
          /\ ret.op = "front_mut" =>
                /\ ret.v = list.element
                /\ refs = {[p |-> list.element, by |-> "front_mut"]}
          /\ (iter.alive /\ iter.out # <<>> /\ frontWrite # {}) =>
                iter.out[1].val \in frontWrite)
    /\ [][ret.op = "front_mut" =>
              /\ \A q \in Nodes \ {list.element} : val'[q] = val[q]
              /\ link' = link]_vars

\* C9 witness: front() read the value that was written through
\* front_mut(), and it differs from the value of another node.
C9_Witness ==
    /\ ret.op = "front" /\ frontWrite # {} /\ ret.v.val \in frontWrite
    /\ \E q \in ChainNodes : val[q] # ret.v.val

\* C10: every handle has a non-null head, so is_empty() (true iff the head
\* is null) returns false and front() and front_mut() return a reference.
C10_HandleNeverEmpty ==
    /\ list # NoList =>
          /\ list.element # NULL
          /\ ~IsEmpty(list)
          /\ Front(list) # NULL
          /\ FrontMut(list) # NULL
    /\ ret.op = "is_empty" => (ret.v <=> list.element = NULL) /\ ~ret.v
    /\ ret.op = "front" => ret.v.p # NULL
    /\ ret.op = "front_mut" => ret.v # NULL

\* C10 witness: is_empty() returned false on a mut-variant handle.
C10_Witness ==
    ret.op = "is_empty" /\ ret.v = FALSE /\ list.kind = "mut"

\* ------------------------------------------- the three-state cursor machine

\* The state of the specified machine that a cursor stands for: Exhausted
\* once next() has returned None, Not-started while prev is None, and
\* At-node(prev) otherwise.
AbsOf(it) ==
    IF it.nones > 0 THEN [st |-> "Exhausted", p |-> NULL]
    ELSE IF it.prev = NULL THEN [st |-> "NotStarted", p |-> NULL]
    ELSE [st |-> "AtNode", p |-> it.prev]

\* "Produce next" of the specified machine from state a: what it yields
\* (NULL for "no more elements") and the state it moves to.
AbsStep(a) ==
    IF a.st = "NotStarted"
    THEN [out |-> list.element, to |-> [st |-> "AtNode", p |-> list.element]]
    ELSE IF a.st = "AtNode" /\ Succ(a.p) # NULL
    THEN [out |-> Succ(a.p), to |-> [st |-> "AtNode", p |-> Succ(a.p)]]
    ELSE [out |-> NULL, to |-> [st |-> "Exhausted", p |-> NULL]]

\* A next() call on the cursor `it`, returning item after `calls` successor
\* invocations and leaving the cursor as `it2`, is a "produce next" of the
\* specified machine; the first call invokes the successor function not at
\* all, every later call once, on prev.
RefinesStep(it, it2, item, calls) ==
    /\ item = AbsStep(AbsOf(it)).out
    /\ AbsOf(it2) = AbsStep(AbsOf(it)).to
    /\ calls = IF it.prev = NULL THEN 0 ELSE 1
    /\ it.prev # NULL => item = Succ(it.prev)

\* C11: the cursor, which stores only prev, refines the three-state machine
\* Not-started / At-node(p) / Exhausted: every next() of Iter and of IterMut
\* yields what the machine yields and moves to the state the machine moves
\* to; the first call yields the head without a successor invocation, and
\* every later call invokes the successor function once, on prev.
C11_CursorRefinesThreeStates ==
    [][ /\ ret'.op = "next" =>
              RefinesStep(iter, iter', ret'.v, ret'.calls)
        /\ ret'.op = "next_mut" =>
              RefinesStep(iterMut, iterMut', ret'.v, ret'.calls) ]_vars

\* C11 witness: a cursor over a two-node chain has passed through
\* Not-started and At-node and has been asked again when Exhausted; its last
\* call invoked the successor function once.
C11_Witness ==
    /\ iter.alive /\ AbsOf(iter).st = "Exhausted" /\ iter.nones = 2
    /\ Len(iter.out) = 2 /\ iter.prev = iter.out[2].p
    /\ ret.op = "next" /\ ret.calls = 1

\* ------------------------------------------------- two read-only cursors

\* list.iter() once more: a second Iter over the same handle.
IterOpB ==
    /\ CanShare
    /\ ~iter2.alive
    /\ iter2' = NewIter(FALSE)
    /\ ret' = [op |-> "iter_b", arg |-> NULL, v |-> NULL, calls |-> 0]
    /\ UNCHANGED <<val, link, list, iter, iterMut, refs, snap, frontWrite,
                   run>>

\* A faulty Iter::next: the position is kept in one place for all cursors
\* of the handle, so that a step of the second cursor moves the first one.
IterNextBMutantShared ==
    /\ iter2.alive
    /\ LET r == IterNextOf(list, iter2.prev)
       IN  /\ iter2' = [iter2 EXCEPT
                          !.prev = r.prev,
                          !.out = IF r.item = NULL THEN @
                                  ELSE Append(@, Seen(r.item)),
                          !.nones = IF r.item = NULL THEN Again(@) ELSE @]
           /\ iter' = IF iter.alive THEN [iter EXCEPT !.prev = r.prev]
                      ELSE iter
           /\ ret' = [op |-> "next_b", arg |-> NULL, v |-> r.item,
                      calls |-> r.calls]
    /\ UNCHANGED <<val, link, list, iterMut, refs, snap, frontWrite, run>>

\* Iter::next on the second cursor.
IterNextB ==
    /\ iter2.alive
    /\ LET r == IterNextOf(list, iter2.prev)
       IN  /\ iter2' = [iter2 EXCEPT
                          !.prev = r.prev,
                          !.out = IF r.item = NULL THEN @
                                  ELSE Append(@, Seen(r.item)),
                          !.nones = IF r.item = NULL THEN Again(@) ELSE @]
           /\ ret' = [op |-> "next_b", arg |-> NULL, v |-> r.item,
                      calls |-> r.calls]
    /\ UNCHANGED <<val, link, list, iter, iterMut, refs, snap, frontWrite,
                   run>>

\* The second cursor goes out of scope.
IterDropB ==
    /\ iter2.alive
    /\ iter2' = NoIter
    /\ ret' = [op |-> "drop_iter_b", arg |-> NULL, v |-> NULL, calls |-> 0]
    /\ UNCHANGED <<val, link, list, iter, iterMut, refs, snap, frontWrite,
                   run>>

\* Two cursors created by iter() on one handle, stepped in any order.
NextTwo ==
    \/ \E head \in Ptr, F \in SuccFns : ConstructConst(head, F)
    \/ \E head \in Ptr, F \in SuccFns : ConstructMut(head, F)
    \/ IterOp
    \/ IterNext
    \/ IterDrop
    \/ IterOpB
    \/ IterNextB
    \/ IterDropB

SpecTwo == Init /\ [][NextTwo]_vars

\* What a cursor has yielded is a prefix of the chain, and the whole chain
\* once the cursor has returned None.
YieldsChain(c) ==
    c.alive => /\ FollowsChain(c.out)
               /\ c.nones > 0 => EndsChain(c.out) /\ Len(c.out) = ChainLen

\* C12: read-only cursors on one handle are independent.  In every
\* interleaving of next() calls on two cursors made by iter() on the same
\* handle, each cursor yields the forward sequence of the chain from the
\* head on, complete when it returns None, and a step of one cursor leaves
\* the other cursor, the handle and the nodes unchanged.
C12_CursorsAreIndependent ==
    /\ [](YieldsChain(iter) /\ YieldsChain(iter2))
    /\ [][ /\ ret'.op = "next" =>
                iter2' = iter2 /\ list' = list /\ val' = val /\ link' = link
           /\ ret'.op = "next_b" =>
                iter' = iter /\ list' = list /\ val' = val /\ link' = link
         ]_vars

\* The second cursor has walked the whole two-node chain and returned None
\* while the first one, still alive, stands at the head.
C12_Witness ==
    /\ iter.alive /\ iter2.alive
    /\ Len(iter.out) = 1 /\ iter.nones = 0 /\ iter.prev = list.element
    /\ Len(iter2.out) = 2 /\ iter2.nones > 0
    /\ iter2.prev # iter.prev
    /\ ret.op = "next_b" /\ ret.v = NULL

\* ------------------------------------------- the loops, one turn at a time

\* A chain that may run into a cycle: the nodes 1 .. k are linked one to
\* the next and the link of node k is null or the address of one of them;
\* the other nodes are loose.  Up to a renaming of the addresses, which the
\* code never looks at, these are all the chains a handle can be given.
ChainOrLasso(lk) ==
    \E k \in Nodes :
        /\ \A p \in Nodes : p < k => lk[p] = p + 1
        /\ lk[k] <= k
        /\ \A p \in Nodes : p > k => lk[p] = NULL

\* The heaps a C program can hand over: every node's link is null or the
\* address of a node, so a chain can run into a cycle.
InitAny ==
    /\ val \in [Nodes -> Vals]
    /\ link \in {lk \in [Nodes -> Ptr] : ChainOrLasso(lk)}
    /\ list = NoList
    /\ iter = NoIter
    /\ iterMut = NoIter
    /\ refs = {}
    /\ snap = NoSnap
    /\ frontWrite = {}
    /\ ret = NoRet
    /\ iter2 = NoIter
    /\ run = NoRun

\* A count the loops keep: exact up to MaxNodes, which is all an acyclic
\* chain needs, and "more than MaxNodes" from there on.
Count(n) == IF n <= MaxNodes THEN n + 1 ELSE n

\* len() before its loop: let mut e = self.element; let mut ret = 1.
LenStart(l) ==
    [op |-> "len", e |-> l.element, n |-> 1, calls |-> 0, x |-> NoElem,
     acc |-> <<>>]

\* A faulty len(): the walk gives up once it has counted as many nodes as
\* the heap holds.
LenTurnOfMutantCycleGuard(l, r) ==
    LET p == Apply(l.next, r.e)
    IN  IF p = NULL \/ r.n >= MaxNodes
        THEN [done |-> TRUE, v |-> r.n,
              run |-> [r EXCEPT !.calls = Count(@)]]
        ELSE [done |-> FALSE, v |-> NULL,
              run |-> [r EXCEPT !.e = p, !.n = Count(@),
                                !.calls = Count(@)]]

\* One test of len()'s while-let and, if the successor is not null, one
\* turn of its body: e = next; ret += 1.  Otherwise len() returns ret.
LenTurnOf(l, r) ==
    LET p == Apply(l.next, r.e)
    IN  IF p = NULL
        THEN [done |-> TRUE, v |-> r.n,
              run |-> [r EXCEPT !.calls = Count(@)]]
        ELSE [done |-> FALSE, v |-> NULL,
              run |-> [r EXCEPT !.e = p, !.n = Count(@),
                                !.calls = Count(@)]]

\* contains(x) before the first element: self.iter() with prev = None.
ContainsStart(x) ==
    [op |-> "contains", e |-> NULL, n |-> 0, calls |-> 0, x |-> x,
     acc |-> <<>>]

\* A faulty contains(): a match is remembered but the walk goes on to the
\* end of the chain.
ContainsTurnOfMutantNoShortCircuit(l, r) ==
    LET s == IterNextOf(l, r.e)
    IN  IF s.item = NULL
        THEN [done |-> TRUE, v |-> r.n > 0, run |-> r]
        ELSE [done |-> FALSE, v |-> NULL,
              run |-> [r EXCEPT !.e = s.prev,
                                !.n = IF Elem(s.item) = r.x THEN 1 ELSE @]]

\* One turn of any(|e| e == x) over the iterator: next() returned None
\* (false), an equal element (true, at once), or another element.
ContainsTurnOf(l, r) ==
    LET s == IterNextOf(l, r.e)
    IN  IF s.item = NULL THEN [done |-> TRUE, v |-> FALSE, run |-> r]
        ELSE IF Elem(s.item) = r.x THEN [done |-> TRUE, v |-> TRUE, run |-> r]
        ELSE [done |-> FALSE, v |-> NULL, run |-> [r EXCEPT !.e = s.prev]]

\* The values a caller passes to contains(): the element of each node, and
\* one that no node holds.
Probes ==
    {Elem(p) : p \in Nodes}
        \cup {CHOOSE x \in Elems : \A p \in Nodes : Elem(p) # x}

\* No call is running: the caller is free to make one.
Idle == run.op = "idle"

\* A call has begun and has not returned.
Pending == [op |-> "pending", arg |-> NULL, v |-> NULL, calls |-> 0]

\* list.len() is called.
LenCall ==
    /\ Idle /\ CanShare
    /\ run' = LenStart(list)
    /\ ret' = Pending
    /\ UNCHANGED <<val, link, list, iter, iterMut, refs, snap, frontWrite,
                   iter2>>

\* len() goes on: one more turn, or the return.
LenTurn ==
    /\ run.op = "len"
    /\ LET t == LenTurnOf(list, run)
       IN  IF t.done
           THEN /\ run' = NoRun
                /\ ret' = [op |-> "len", arg |-> NULL, v |-> t.v,
                           calls |-> t.run.calls]
           ELSE /\ run' = t.run
                /\ ret' = ret
    /\ UNCHANGED <<val, link, list, iter, iterMut, refs, snap, frontWrite,
                   iter2>>

\* list.contains(&x) is called.
ContainsCall(x) ==
    /\ Idle /\ CanShare
    /\ run' = ContainsStart(x)
    /\ ret' = Pending
    /\ UNCHANGED <<val, link, list, iter, iterMut, refs, snap, frontWrite,
                   iter2>>

\* contains() goes on.
ContainsTurn ==
    /\ run.op = "contains"
    /\ LET t == ContainsTurnOf(list, run)
       IN  IF t.done
           THEN /\ run' = NoRun
                /\ ret' = [op |-> "contains", arg |-> run.x, v |-> t.v,
                           calls |-> 0]
           ELSE /\ run' = t.run
                /\ ret' = ret
    /\ UNCHANGED <<val, link, list, iter, iterMut, refs, snap, frontWrite,
                   iter2>>

\* format!("{:?}", list) is called.
FmtCall ==
    /\ Idle /\ CanShare
    /\ run' = FmtStart
    /\ ret' = Pending
    /\ UNCHANGED <<val, link, list, iter, iterMut, refs, snap, frontWrite,
                   iter2>>

\* fmt() goes on.
FmtTurn ==
    /\ run.op = "fmt"
    /\ LET t == FmtTurnOf(list, run)
       IN  IF t.done
           THEN /\ run' = NoRun
                /\ ret' = [op |-> "fmt", arg |-> NULL, v |-> t.v,
                           calls |-> 0]
           ELSE /\ run' = t.run
                /\ ret' = ret
    /\ UNCHANGED <<val, link, list, iter, iterMut, refs, snap, frontWrite,
                   iter2>>

\* The caller drives a cursor for at most MaxNodes + 1 elements.
Driven(c) == Len(c.out) <= MaxNodes

\* Calls that run their loop turn by turn, on any heap; a call returns
\* before the caller does anything else.
NextRun ==
    \/ \E head \in Ptr, F \in SuccFns : ConstructConst(head, F)
    \/ \E head \in Ptr, F \in SuccFns : ConstructMut(head, F)
    \/ LenCall
    \/ LenTurn
    \/ \E x \in Probes : ContainsCall(x)
    \/ ContainsTurn
    \/ FmtCall
    \/ FmtTurn
    \/ Idle /\ IterOp
    \/ Idle /\ Driven(iter) /\ IterNext
    \/ Idle /\ IterDrop
    \/ Idle /\ IterMutOp
    \/ Idle /\ Driven(iterMut) /\ IterMutNext
    \/ Idle /\ IterMutDrop
    \/ \E r \in refs : Idle /\ DropRef(r)

SpecRun == InitAny /\ [][NextRun]_vars

\* A call that has begun runs on: the thread that made it executes its
\* loop, turn after turn, until the loop is left.
SpecRunFair ==
    /\ SpecRun
    /\ WF_run(LenTurn \/ ContainsTurn \/ FmtTurn)

\* ------------------------------------------------------- cycles and ends

\* Some node reachable from the head is its own eventual successor.
CyclicChain ==
    /\ list # NoList
    /\ \E p \in ChainNodes : p \in ReachIn({Succ(p)} \ {NULL}, MaxNodes)

\* The chain of the handle is null-terminated.
AcyclicChain == list # NoList /\ ~CyclicChain

\* Some element of the chain equals x.
Match(x) == \E p \in ChainNodes : Elem(p) = x

\* C13 (as claimed): on a cyclic chain contains(x) never terminates, for
\* every value x, also one equal to an element of the chain: no call of
\* contains on a cyclic chain has returned.
C13_ContainsNeverReturns == CyclicChain => ret.op # "contains"

\* C13 (amended): on a cyclic chain contains(x) never terminates for a
\* value x equal to no element of the chain, and it returns true, at the
\* first match, for a value equal to an element; it never returns false.
C13_ContainsReturnsOnlyOnMatch ==
    /\ [](IF ~CyclicChain THEN TRUE
          ELSE IF ret.op = "contains" THEN ret.v = TRUE /\ Match(ret.arg)
          ELSE IF run.op = "contains" /\ ~Match(run.x)
               THEN ~ContainsTurnOf(list, run).done
          ELSE TRUE)
    /\ [][ (CyclicChain /\ run.op = "contains" /\ ~Match(run.x)) =>
              run'.op = "contains" ]_vars
    /\ (CyclicChain /\ run.op = "contains" /\ Match(run.x))
          ~> (IF ret.op = "contains" THEN ret.v = TRUE ELSE FALSE)

\* contains(x) has returned true on a cyclic chain whose second node, and
\* not its head, equals x.
C13_Witness ==
    /\ CyclicChain
    /\ ret.op = "contains" /\ ret.v = TRUE
    /\ ret.arg # Elem(list.element)
    /\ ret.arg = Elem(Succ(list.element))

\* C14: on a cyclic chain len() never returns (its loop condition holds at
\* every test, and the call stays in its loop), and no cursor reaches
\* exhaustion: every next() yields an element.
C14_CyclicWalkNeverEnds ==
    /\ [](CyclicChain =>
            /\ ret.op # "len"
            /\ run.op = "len" => ~LenTurnOf(list, run).done
            /\ iter.nones = 0 /\ iterMut.nones = 0
            /\ ret.op \in {"next", "next_mut"} => ret.v # NULL)
    /\ [][ (CyclicChain /\ run.op = "len") => run'.op = "len" ]_vars

\* len() on a cyclic chain has counted more nodes than the heap holds and
\* is still in its loop, and a cursor has yielded its first node a second
\* time.
C14_Witness ==
    /\ CyclicChain
    /\ run.op = "len" /\ run.n > MaxNodes
    /\ iter.alive /\ Len(iter.out) > MaxNodes
    /\ \E k \in 2 .. Len(iter.out) : iter.out[k].p = iter.out[1].p

\* C15: on an acyclic chain of n nodes every operation terminates.  len()
\* returns n after exactly n invocations of the successor function;
\* contains and debug rendering return; a cursor (Iter or IterMut) yields
\* an element on each of its first n next() calls and None on the next.
C15_AcyclicOperationsTerminate ==
    /\ [](IF ~AcyclicChain THEN TRUE
          ELSE /\ IF ret.op = "len"
                  THEN ret.v = ChainLen /\ ret.calls = ChainLen
                  ELSE IF ret.op = "fmt" THEN Len(ret.v) = ChainLen
                  ELSE TRUE
               /\ \A c \in {iter, iterMut} :
                     c.alive => /\ Len(c.out) <= ChainLen
                                /\ c.nones > 0 => Len(c.out) = ChainLen)
    /\ [][ IF ~AcyclicChain THEN TRUE
           ELSE IF ret'.op = "next"
                THEN ret'.v = NULL <=> Len(iter.out) = ChainLen
           ELSE IF ret'.op = "next_mut"
                THEN ret'.v = NULL <=> Len(iterMut.out) = ChainLen
           ELSE TRUE ]_vars
    /\ (AcyclicChain /\ ~Idle) ~> Idle

\* On a two-node chain a cursor has yielded both nodes and then None, and
\* after that len() has returned with two successor invocations made.
C15_Witness ==
    /\ AcyclicChain /\ ChainLen = 2
    /\ iter.alive /\ iter.nones > 0 /\ Len(iter.out) = 2
    /\ ret.op = "len" /\ ret.v = 2 /\ ret.calls = 2

\* --------------------------------------------------------------- frames

\* The operations that take &self, by the name they leave in ret.
ReadOnlyOps ==
    {"len", "contains", "is_empty", "front", "iter", "next", "size_hint",
     "size_hint_mut", "fmt", "fmt_iter", "fmt_iter_mut"}

\* size_hint and debug rendering.
CursorFreeOps ==
    {"size_hint", "size_hint_mut", "fmt", "fmt_iter", "fmt_iter_mut"}

\* C16: the read-only operations write nothing.  A step of len, contains,
\* is_empty, front, iter, Iter::next, size_hint (of Iter and of IterMut)
\* or debug rendering (of the handle, of an Iter, of an IterMut) leaves
\* every node's value and link as they were, and a step of size_hint or of
\* debug rendering leaves every cursor as it was.
C16_ReadOnlyOperationsWriteNothing ==
    [][ /\ ret'.op \in ReadOnlyOps => val' = val /\ link' = link
        /\ ret'.op \in CursorFreeOps =>
              /\ iter' = iter
              /\ iterMut' = iterMut
              /\ refs' = refs ]_vars

\* Debug rendering of a cursor that stands on the head of a two-node chain
\* has rendered both nodes, after a value of the chain had been changed
\* through iter_mut.
C16_Witness ==
    /\ ret.op = "fmt_iter" /\ Len(ret.v) = 2
    /\ iter.alive /\ iter.prev = list.element /\ iter.nones = 0
    /\ snap # NoSnap /\ snap.val # val

\* The operations that construct a handle, by the name they leave in ret.
ConstructOps == {"from_const_ptr", "from_mut_ptr"}

\* C17: a handle is immutable for its lifetime.  Construction stores the
\* head address and the successor function it was given, and no step of
\* any operation (len, contains, is_empty, front, front_mut, iter,
\* iter_mut, next, size_hint, a write through a yielded reference) changes
\* the handle: a walk advances the prev of its cursor only.
C17_HandleIsImmutable ==
    /\ [](IF ret.op \in ConstructOps /\ list # NoList
          THEN /\ list.element = ret.arg.head
               /\ list.next = ret.arg.next
          ELSE TRUE)
    /\ [][ list # NoList => list' = list ]_vars
    /\ [][ ret'.op \in {"next", "next_mut"} =>
              UNCHANGED <<val, link, list>> ]_vars

\* A value has been written through front_mut, a cursor has walked the
\* two-node chain to its end, and the handle still holds the head the
\* cursor started from.
C17_Witness ==
    /\ list # NoList /\ list.kind = "mut"
    /\ iter.alive /\ Len(iter.out) = 2 /\ iter.nones > 0
    /\ list.element = iter.out[1].p /\ iter.prev # list.element
    /\ frontWrite # {}
    /\ ret.op = "next" /\ ret.v = NULL

\* ------------------------------------------------------- the two variants

\* The two variants agree on the handle made from head and F: both absent
\* or both present with the same head and successor function, and then
\* with the same results of len, is_empty, front, contains (for every
\* value), size_hint and of Iter::next from every cursor position.
VariantsAgreeOn(head, F) ==
    LET c == FromConstPtr(head, F)
        m == FromMutPtr(head, F)
    IN  /\ c = NoList <=> m = NoList
        /\ c # NoList =>
              /\ c.kind = "const" /\ m.kind = "mut"
              /\ c.element = m.element /\ c.next = m.next
              /\ LenConst(c) = LenMut(m)
              /\ IsEmpty(c) = IsEmpty(m)
              /\ Front(c) = Front(m)
              /\ \A x \in Elems : Contains(c, x) = Contains(m, x)
              /\ SizeHintOf(c) = SizeHintOf(m)
              /\ \A prev \in Ptr : IterNextConst(c, prev) = IterNextMut(m, prev)

\* The handle of the other variant on the same chain.
Twin == [list EXCEPT !.kind = IF @ = "const" THEN "mut" ELSE "const"]

\* C18: the const-pointer and the mut-pointer variant behave alike on the
\* operations they share.  Whenever a handle is constructed, on any chain
\* and from any head and successor function, the other constructor gives
\* the same handle, and len, contains, is_empty, front, size_hint and
\* Iter::next (from every cursor position) give the same result and the
\* same new cursor in both variants; and whatever the handle of one
\* variant returns later, also after values were written, is what the
\* handle of the other variant on the same chain returns in that state.
C18_VariantsAgree ==
    /\ ret.op \in ConstructOps =>
          VariantsAgreeOn(ret.arg.head, ret.arg.next)
    /\ list # NoList =>
          /\ ret.op = "len" =>
                ret.v = LenOf(Twin).v /\ ret.calls = LenOf(Twin).calls
          /\ ret.op = "contains" => ret.v = Contains(Twin, ret.arg)
          /\ ret.op = "is_empty" => ret.v = IsEmpty(Twin)
          /\ ret.op = "front" => ret.v = Seen(Front(Twin))
          /\ ret.op = "size_hint" => ret.v = SizeHintOf(Twin)
          /\ (iter.alive /\ iter.nones = 0) =>
                IterNextOf(list, iter.prev) = IterNextOf(Twin, iter.prev)

\* len() of a mut-variant handle on a two-node chain has returned 2 with
\* two successor invocations, as the const variant does on that chain.
C18_Witness ==
    /\ ret.op = "len" /\ list.kind = "mut" /\ ret.v = 2
    /\ LenConst(Twin) = [v |-> 2, calls |-> 2]
    /\ iter.alive /\ iter.prev # NULL

====
